---- MODULE Spec2Model ----
(***************************************************************************)
(* YeelightDevice (src/devices/Yeelight.py): one adapter instance, called  *)
(* by several asyncio tasks.  A step of the model is one run of a task     *)
(* between two suspension points of the event loop: a call runs from its   *)
(* start to its first real suspension (a held lock, or a device call       *)
(* handed to the executor), and resumes when the lock is handed over or    *)
(* the device call returns or fails.                                       *)
(***************************************************************************)
EXTENDS Integers, Sequences, FiniteSets, TLC

VARIABLES
    device,          \* self.device is not None
    cached_values,   \* self.cached_values: device key -> raw value
    initialized,     \* self._initialized
    last_poll,       \* self._last_poll
    minmaxValue,     \* self.minmaxValue (NoSpecs until async_init sets it)
    fields,          \* the field registry of BaseDevice: name -> descriptor
    lockOwner,       \* self._lock: the task holding it, or NoTask
    waiters,         \* self._lock: tasks waiting, first come first served
    clock,           \* the last reading of time.monotonic()
    pc,              \* per task: where its current call is suspended
    arg,             \* per task: (name, value) of a running set_value
    now,             \* per task: the local `now` of a running async_load
    values,          \* per task: the local `values` of a running async_init
    ret,             \* how the last call that returned ended
    sent,            \* the device commands of the last set_value that held the lock
    fetches,         \* device fetches issued so far, by kind
    calls,           \* calls started so far
    pre,             \* history (SpecSeq): adapter state when the last call began
    pollLog          \* history (SpecSeq): the polls that have returned

vars == <<device, cached_values, initialized, last_poll, minmaxValue, fields,
          lockOwner, waiters, clock, pc, arg, now, values, ret, sent,
          fetches, calls, pre, pollLog>>

(* ------------------------------ bounds -------------------------------- *)

NumTasks == 2
MaxCalls == 2
MaxSeqCalls == 3
MaxClock == 10

Tasks == 1..NumTasks
Clock == 0..MaxClock
NoTask == 0

(* ------------------------- program constants -------------------------- *)

PollInterval == 5
InitialLastPoll == 0

(* --------------------------- Python values ---------------------------- *)
(* str, int and None are kept apart: "200" == 200 is False in Python.     *)

S(s) == [str |-> s]
I(n) == [int |-> n]
None == [none |-> TRUE]

IsStr(v) == DOMAIN v = {"str"}
IsInt(v) == DOMAIN v = {"int"}

Decimal == ("0" :> 0) @@ ("1" :> 1) @@ ("50" :> 50) @@ ("60" :> 60)
           @@ ("100" :> 100) @@ ("200" :> 200) @@ ("3000" :> 3000)
           @@ ("4000" :> 4000)

\* int(v) succeeds: an int, or a str holding a decimal numeral.
CanInt(v) == IsInt(v) \/ (IsStr(v) /\ v.str \in DOMAIN Decimal)

\* int(v), where it succeeds.
ToInt(v) == IF IsInt(v) THEN v.int ELSE Decimal[v.str]

\* str(n) for the capability bounds.
StrOf(n) == CASE n = 1700 -> "1700"
              [] n = 2700 -> "2700"
              [] n = 6500 -> "6500"

EmptyDict == [k \in {} |-> None]

Put(d, k, v) == [x \in (DOMAIN d) \cup {k} |-> IF x = k THEN v ELSE d[x]]

\* dict.get(k, default)
Get(d, k, default) == IF k \in DOMAIN d THEN d[k] ELSE default

(* ------------------------------ inputs -------------------------------- *)

PropsOff == ("power" :> S("off")) @@ ("hue" :> S("100")) @@ ("sat" :> S("50"))
            @@ ("ct" :> S("4000")) @@ ("bg_hue" :> S("100"))
            @@ ("bg_sat" :> S("50"))

PropsOn == ("power" :> S("on")) @@ ("hue" :> S("100")) @@ ("sat" :> S("50"))
           @@ ("ct" :> S("4000")) @@ ("bg_hue" :> S("100"))
           @@ ("bg_sat" :> S("50"))

PropsPartial == ("power" :> S("on")) @@ ("hue" :> S("200")) @@ ("sat" :> None)

\* What device.get_properties may return.
Responses == {PropsOff, PropsOn, PropsPartial, EmptyDict}

DefaultSpecs == [color_temp |-> [min |-> 1700, max |-> 6500], night_light |-> TRUE]

PlainSpecs == [color_temp |-> [min |-> 2700, max |-> 6500], night_light |-> FALSE]

\* What device.get_model_specs may return.
ModelSpecs == {DefaultSpecs, PlainSpecs}

NoSpecs == [unset |-> TRUE]

Descriptor(value, high, low, type) ==
    [value |-> value, high |-> high, low |-> low, type |-> type]

\* A registry that already holds fields when the adapter is constructed.
PresetRegistry ==
    ("temp" :> Descriptor(S("3000"), "5000", "2000", "NUMBER"))
    @@ ("color" :> Descriptor(S("100"), "360", "0", "NUMBER"))
    @@ ("other" :> Descriptor(S("0"), "1", "0", "BINARY"))

Registries == {EmptyDict, PresetRegistry}

\* The (field_id, value) pairs set_value is called with.
Writes == { <<"state", "1">>, <<"color", "200">>, <<"saturation", "60">>,
            <<"saturation", "x">>, <<"bg_color", "200">>,
            <<"bg_saturation", "60">>, <<"temp", "3000">>, <<"other", "1">>,
            <<"nosuch", "1">> }

(* ------------------------- field registry ----------------------------- *)
(* BaseDevice is not part of this repository's sources; its registry is   *)
(* modelled from the interface the adapter consumes.                      *)

\* get_field_by_name(name) is not None
HasField(flds, name) == name \in DOMAIN flds

\* _add_field(DeviceInitFieldSchema(...))
AddField(flds, name, d) == Put(flds, name, d)

\* field.set(value)
FieldSet(flds, name, value) == [flds EXCEPT ![name].value = value]

\* BaseDevice.set_value(field_id, value, script): stores the value as given.
BaseSetValue(flds, name, value) == FieldSet(flds, name, value)

(* ------------------------ async_init: fields -------------------------- *)

\* field_mappings, in the order of the dict: (field, key, high, low, type).
FieldMappings(specs) == <<
    <<"state", "power", "1", "0", "BINARY">>,
    <<"bg_power", "bg_power", "1", "0", "BINARY">>,
    <<"brightness", "current_brightness", "100", "0", "NUMBER">>,
    <<"bg_bright", "bg_bright", "100", "0", "NUMBER">>,
    <<"color", "hue", "360", "0", "NUMBER">>,
    <<"bg_color", "bg_hue", "360", "0", "NUMBER">>,
    <<"saturation", "sat", "100", "0", "NUMBER">>,
    <<"bg_saturation", "bg_sat", "100", "0", "NUMBER">>,
    <<"temp", "ct", StrOf(specs.color_temp.max), StrOf(specs.color_temp.min), "NUMBER">>,
    <<"bg_temp", "bg_ct", "6500", "1700", "NUMBER">> >>

\* The night_light field is added when absent and the specs declare it.
RegisterNightLight(flds, vals, specs) ==
    IF ~HasField(flds, "night_light") /\ specs.night_light
    THEN AddField(flds, "night_light",
                  Descriptor(Get(vals, "active_mode", I(0)), "1", "0", "BINARY"))
    ELSE flds

RECURSIVE RegisterMappedUnchecked(_, _, _, _)
RegisterMappedUnchecked(i, flds, vals, specs) ==
    IF i > Len(FieldMappings(specs)) THEN flds
    ELSE LET m == FieldMappings(specs)[i]
         IN IF Get(vals, m[2], None) # None
            THEN RegisterMappedUnchecked(i + 1,
                     AddField(flds, m[1], Descriptor(vals[m[2]], m[3], m[4], m[5])),
                     vals, specs)
            ELSE RegisterMappedUnchecked(i + 1, flds, vals, specs)

RECURSIVE RegisterMapped(_, _, _, _)
\* The loop over field_mappings, from entry i on.
RegisterMapped(i, flds, vals, specs) ==
    IF i > Len(FieldMappings(specs)) THEN flds
    ELSE LET m == FieldMappings(specs)[i]
         IN IF ~HasField(flds, m[1]) /\ Get(vals, m[2], None) # None
            THEN RegisterMapped(i + 1,
                     AddField(flds, m[1], Descriptor(vals[m[2]], m[3], m[4], m[5])),
                     vals, specs)
            ELSE RegisterMapped(i + 1, flds, vals, specs)

\* Every field async_init registers once the specs are known.
RegisterFields(flds, vals, specs) ==
    RegisterMapped(1, RegisterNightLight(flds, vals, specs), vals, specs)

(* ------------------------- async_load: patch -------------------------- *)

\* The chain of `if key in v: maybe(name, ...)`, in the order of the code.
PollTable == <<
    <<"power", "state", "onoff">>,
    <<"current_brightness", "brightness", "raw">>,
    <<"bg_bright", "bg_bright", "raw">>,
    <<"active_mode", "night_light", "raw">>,
    <<"ct", "temp", "raw">>,
    <<"bg_ct", "bg_temp", "raw">>,
    <<"hue", "color", "raw">>,
    <<"bg_hue", "bg_color", "raw">>,
    <<"bg_power", "bg_power", "onoff">>,
    <<"sat", "saturation", "raw">>,
    <<"bg_sat", "bg_saturation", "raw">> >>

DecodeRaw(how, raw) == raw

\* The value handed to maybe() for a key of v.
Decode(how, raw) ==
    IF how = "onoff" THEN (IF raw = S("on") THEN S("1") ELSE S("0")) ELSE raw

ChangesAlways(flds, name, new) == HasField(flds, name)

\* maybe(name, new_val) changes the field: it exists and holds another value.
Changes(flds, name, new) == HasField(flds, name) /\ flds[name].value # new

RECURSIVE PollFields(_, _, _)
\* The registry after the chain, from entry i on.
PollFields(i, flds, v) ==
    IF i > Len(PollTable) THEN flds
    ELSE LET e == PollTable[i]
         IN IF e[1] \in DOMAIN v /\ Changes(flds, e[2], Decode(e[3], v[e[1]]))
            THEN PollFields(i + 1, FieldSet(flds, e[2], Decode(e[3], v[e[1]])), v)
            ELSE PollFields(i + 1, flds, v)

RECURSIVE PollPatch(_, _, _, _)
\* The patch after the chain, from entry i on.
PollPatch(i, flds, v, patch) ==
    IF i > Len(PollTable) THEN patch
    ELSE LET e == PollTable[i]
         IN IF e[1] \in DOMAIN v /\ Changes(flds, e[2], Decode(e[3], v[e[1]]))
            THEN PollPatch(i + 1, FieldSet(flds, e[2], Decode(e[3], v[e[1]])), v,
                           Put(patch, e[2], Decode(e[3], v[e[1]])))
            ELSE PollPatch(i + 1, flds, v, patch)

(* ------------------------ set_value: dispatch ------------------------- *)

Call(method, args) == [kind |-> "call", method |-> method, args |-> args]
Raises == [kind |-> "raise"]
NoBranch == [kind |-> "none"]

OnOff(value) == IF ToInt(value) = 1 THEN S("on") ELSE S("off")

\* int(self.get_field_by_name(name).get()) succeeds
CanReadInt(flds, name) == HasField(flds, name) /\ CanInt(flds[name].value)

ReadIntFromCache(flds, name) ==
    LET k == CASE name = "saturation" -> "sat"
               [] name = "color" -> "hue"
               [] name = "bg_saturation" -> "bg_sat"
               [] OTHER -> "bg_hue"
    IN IF k \in DOMAIN cached_values /\ CanInt(cached_values[k])
       THEN I(ToInt(cached_values[k])) ELSE I(0)

\* int(self.get_field_by_name(name).get())
ReadInt(flds, name) == I(ToInt(flds[name].value))

\* The first device call of the branch for `name`, or the exception raised
\* while its arguments are evaluated, or no branch at all.
FirstCommand(name, value, flds) ==
    CASE name = "state" ->
            IF CanInt(value)
            THEN Call("send_command", <<S("set_power"), OnOff(value)>>) ELSE Raises
      [] name = "brightness" ->
            IF CanInt(value) THEN Call("set_brightness", <<I(ToInt(value))>>) ELSE Raises
      [] name = "bg_bright" ->
            IF CanInt(value)
            THEN Call("send_command", <<S("bg_set_bright"), I(ToInt(value))>>) ELSE Raises
      [] name = "temp" -> Call("set_power_mode", <<S("NORMAL")>>)
      [] name = "bg_temp" ->
            IF CanInt(value)
            THEN Call("send_command", <<S("bg_set_ct_abx"), I(ToInt(value))>>) ELSE Raises
      [] name = "night_light" ->
            IF CanInt(value)
            THEN Call("set_power_mode",
                      <<IF ToInt(value) = 1 THEN S("MOONLIGHT") ELSE S("NORMAL")>>)
            ELSE Raises
      [] name = "color" ->
            IF CanInt(value) /\ CanReadInt(flds, "saturation")
            THEN Call("set_hsv", <<I(ToInt(value)), ReadInt(flds, "saturation")>>)
            ELSE Raises
      [] name = "bg_color" ->
            IF CanInt(value) /\ CanReadInt(flds, "bg_saturation")
            THEN Call("send_command",
                      <<S("bg_set_hsv"), I(ToInt(value)), ReadInt(flds, "bg_saturation")>>)
            ELSE Raises
      [] name = "saturation" ->
            IF CanReadInt(flds, "color") /\ CanInt(value)
            THEN Call("set_hsv", <<ReadInt(flds, "color"), I(ToInt(value))>>)
            ELSE Raises
      [] name = "bg_saturation" ->
            IF CanReadInt(flds, "bg_color") /\ CanInt(value)
            THEN Call("send_command",
                      <<S("bg_set_hsv"), ReadInt(flds, "bg_color"), I(ToInt(value))>>)
            ELSE Raises
      [] name = "bg_power" ->
            IF CanInt(value)
            THEN Call("send_command", <<S("bg_set_power"), OnOff(value)>>) ELSE Raises
      [] OTHER -> NoBranch

\* The temp branch calls set_color_temp after set_power_mode has returned.
SecondCommand(name, value) ==
    IF CanInt(value) THEN Call("set_color_temp", <<I(ToInt(value))>>) ELSE Raises

\* The key of cached_values a branch updates after its device call.
CacheKey(name) ==
    CASE name = "state" -> "power"
      [] name = "brightness" -> "current_brightness"
      [] name = "bg_bright" -> "bg_bright"
      [] name = "temp" -> "ct"
      [] name = "bg_temp" -> "bg_ct"
      [] name = "night_light" -> "active_mode"
      [] name = "color" -> "hue"
      [] name = "bg_color" -> "bg_hue"
      [] name = "saturation" -> "sat"
      [] name = "bg_saturation" -> "bg_sat"
      [] name = "bg_power" -> "bg_power"

\* The value it stores there.
CacheValue(name, value) ==
    IF name \in {"state", "bg_power"} THEN OnOff(value) ELSE I(ToInt(value))

(* ------------------------------ the lock ------------------------------ *)

LockIgnored == TRUE

\* asyncio.Lock.acquire() returns at once: unlocked and nobody waiting.
LockFree == lockOwner = NoTask /\ waiters = <<>>

\* asyncio.Lock.release(): the first waiter, if any, is the next holder.
NextOwner == IF waiters = <<>> THEN NoTask ELSE Head(waiters)
NextWaiters == IF waiters = <<>> THEN <<>> ELSE Tail(waiters)

\* Leaving `async with self._lock`.
Release == lockOwner' = NextOwner /\ waiters' = NextWaiters

\* Waiting in `async with self._lock`.
Enqueue(t) == waiters' = Append(waiters, t) /\ lockOwner' = lockOwner

(* --------------------------- bookkeeping ------------------------------ *)

NoArg == [name |-> "", value |-> None]

\* A task starts a coroutine call.
Begin(t) ==
    /\ pc[t] = "idle"
    /\ calls' = calls + 1

\* The locals of a call are gone when it has returned.
ClearLocals(t) ==
    /\ arg' = [arg EXCEPT ![t] = NoArg]
    /\ now' = [now EXCEPT ![t] = 0]
    /\ values' = [values EXCEPT ![t] = EmptyDict]

\* The call op(a) of task t returns val to its caller; `how` names the path
\* it took.
Return(t, op, a, val, how) ==
    /\ pc' = [pc EXCEPT ![t] = "idle"]
    /\ ret' = [op |-> op, arg |-> a, kind |-> "return", val |-> val, how |-> how]
    /\ ClearLocals(t)

\* The call op(a) of task t raises to its caller.
Raise(t, op, a, how) ==
    /\ pc' = [pc EXCEPT ![t] = "idle"]
    /\ ret' = [op |-> op, arg |-> a, kind |-> "raise", val |-> None, how |-> how]
    /\ ClearLocals(t)

\* The call of task t is suspended at `where`.
Suspend(t, where) ==
    /\ pc' = [pc EXCEPT ![t] = where]
    /\ ret' = ret

Count(kind) == fetches' = [fetches EXCEPT ![kind] = @ + 1]

\* self.device is not None and self._initialized
is_conected == device /\ initialized

(* ----------------------------- async_init ----------------------------- *)

\* `await self._call(self.device.get_properties)` under the lock: the call is
\* handed to the executor, or self.device is None and the attribute access
\* raises into the outer except.
InitFetch(t) ==
    IF device
    THEN /\ Suspend(t, "init_props")
         /\ Count("init_props")
         /\ lockOwner' = t /\ waiters' = waiters
         /\ UNCHANGED <<arg, now, values>>
    ELSE /\ Return(t, "async_init", NoArg, None, "no_device")
         /\ Release
         /\ fetches' = fetches

InitSkipsWithoutFlag == ~device

\* if self._initialized or not self.device: return
InitSkips == initialized \/ ~device

InitCall(t) ==
    /\ Begin(t)
    /\ IF InitSkips
       THEN /\ Return(t, "async_init", NoArg, None, "skipped")
            /\ UNCHANGED <<lockOwner, waiters, fetches>>
       ELSE IF LockFree
            THEN InitFetch(t)
            ELSE /\ Suspend(t, "init_lock")
                 /\ Enqueue(t)
                 /\ UNCHANGED <<fetches, arg, now, values>>
    /\ UNCHANGED <<device, cached_values, initialized, last_poll, minmaxValue,
                   fields, clock, sent>>

InitLocked(t) ==
    /\ pc[t] = "init_lock" /\ lockOwner = t
    /\ InitFetch(t)
    /\ UNCHANGED <<device, cached_values, initialized, last_poll, minmaxValue,
                   fields, clock, sent, calls>>

InitPropsFailMarks(t) ==
    /\ pc[t] = "init_props"
    /\ initialized' = TRUE
    /\ Return(t, "async_init", NoArg, None, "props_failed")
    /\ Release
    /\ UNCHANGED <<device, cached_values, last_poll, minmaxValue, fields,
                   clock, sent, fetches, calls>>

\* get_properties raised: the outer except logs, the lock is released.
InitPropsFail(t) ==
    /\ pc[t] = "init_props"
    /\ Return(t, "async_init", NoArg, None, "props_failed")
    /\ Release
    /\ UNCHANGED <<device, cached_values, initialized, last_poll, minmaxValue,
                   fields, clock, sent, fetches, calls>>

\* The rest of async_init once the specs are known: fields, the flag.
InitFinish(t, vals, specs, how) ==
    /\ minmaxValue' = specs
    /\ fields' = RegisterFields(fields, vals, specs)
    /\ initialized' = TRUE
    /\ Return(t, "async_init", NoArg, None, how)
    /\ Release

\* get_properties returned r.
InitPropsOk(t, r) ==
    /\ pc[t] = "init_props"
    /\ IF r = EmptyDict
       THEN /\ Return(t, "async_init", NoArg, None, "props_empty")
            /\ Release
            /\ UNCHANGED <<cached_values, initialized, minmaxValue, fields,
                           fetches>>
       ELSE /\ cached_values' = r
            /\ IF device
               THEN /\ Suspend(t, "init_specs")
                    /\ Count("specs")
                    /\ values' = [values EXCEPT ![t] = r]
                    /\ UNCHANGED <<initialized, minmaxValue, fields, lockOwner,
                                   waiters, arg, now>>
               ELSE /\ InitFinish(t, r, DefaultSpecs, "specs_failed")
                    /\ fetches' = fetches
    /\ UNCHANGED <<device, last_poll, clock, sent, calls>>

\* get_model_specs returned specs.
InitSpecsOk(t, specs) ==
    /\ pc[t] = "init_specs"
    /\ InitFinish(t, values[t], specs, "ok")
    /\ UNCHANGED <<device, cached_values, last_poll, clock, sent, fetches, calls>>

InitSpecsFailAborts(t) ==
    /\ pc[t] = "init_specs"
    /\ Return(t, "async_init", NoArg, None, "specs_failed")
    /\ Release
    /\ UNCHANGED <<device, cached_values, initialized, last_poll, minmaxValue,
                   fields, clock, sent, fetches, calls>>

\* get_model_specs raised: the inner except substitutes the default specs.
InitSpecsFail(t) ==
    /\ pc[t] = "init_specs"
    /\ InitFinish(t, values[t], DefaultSpecs, "specs_failed")
    /\ UNCHANGED <<device, cached_values, last_poll, clock, sent, fetches, calls>>

(* ----------------------------- async_load ----------------------------- *)

LoadFetchUnchecked(t, at) ==
    /\ Suspend(t, "load_props")
    /\ Count("load_props")
    /\ lockOwner' = t /\ waiters' = waiters
    /\ now' = [now EXCEPT ![t] = at]
    /\ UNCHANGED <<arg, values>>

\* `await self._call(self.device.get_properties)` under the lock, `at` being
\* the local `now`.
LoadFetch(t, at) ==
    IF device
    THEN /\ Suspend(t, "load_props")
         /\ Count("load_props")
         /\ lockOwner' = t /\ waiters' = waiters
         /\ now' = [now EXCEPT ![t] = at]
         /\ UNCHANGED <<arg, values>>
    ELSE /\ Return(t, "async_load", NoArg, EmptyDict, "no_device")
         /\ Release
         /\ fetches' = fetches

\* now - self._last_poll < self._poll_interval
RateLimited(at) == at - last_poll < PollInterval

\* The call reads time.monotonic(): `at`, not before the last reading.
LoadCall(t, at) ==
    /\ Begin(t)
    /\ at >= clock
    /\ clock' = at
    /\ IF ~device
       THEN /\ Return(t, "async_load", NoArg, EmptyDict, "no_handle")
            /\ UNCHANGED <<lockOwner, waiters, fetches>>
       ELSE IF RateLimited(at)
            THEN /\ Return(t, "async_load", NoArg, EmptyDict, "rate_limited")
                 /\ UNCHANGED <<lockOwner, waiters, fetches>>
            ELSE IF LockFree
                 THEN LoadFetch(t, at)
                 ELSE /\ Suspend(t, "load_lock")
                      /\ Enqueue(t)
                      /\ now' = [now EXCEPT ![t] = at]
                      /\ UNCHANGED <<fetches, arg, values>>
    /\ UNCHANGED <<device, cached_values, initialized, last_poll, minmaxValue,
                   fields, sent>>

LoadLocked(t) ==
    /\ pc[t] = "load_lock" /\ lockOwner = t
    /\ LoadFetch(t, now[t])
    /\ UNCHANGED <<device, cached_values, initialized, last_poll, minmaxValue,
                   fields, clock, sent, calls>>

LoadPropsFailStamps(t) ==
    /\ pc[t] = "load_props"
    /\ last_poll' = now[t]
    /\ Return(t, "async_load", NoArg, EmptyDict, "failed")
    /\ Release
    /\ UNCHANGED <<device, cached_values, initialized, minmaxValue, fields,
                   clock, sent, fetches, calls>>

LoadPropsFailHolds(t) ==
    /\ pc[t] = "load_props"
    /\ Return(t, "async_load", NoArg, EmptyDict, "failed")
    /\ UNCHANGED <<device, cached_values, initialized, last_poll, minmaxValue,
                   fields, clock, sent, fetches, calls, lockOwner, waiters>>

\* get_properties raised: a warning, the lock is released, {} is returned.
LoadPropsFail(t) ==
    /\ pc[t] = "load_props"
    /\ Return(t, "async_load", NoArg, EmptyDict, "failed")
    /\ Release
    /\ UNCHANGED <<device, cached_values, initialized, last_poll, minmaxValue,
                   fields, clock, sent, fetches, calls>>

\* get_properties returned r: the cache and the time are set, the lock is
\* released and the chain of maybe() runs, with no suspension in between.
LoadPropsOk(t, r) ==
    /\ pc[t] = "load_props"
    /\ cached_values' = r
    /\ last_poll' = now[t]
    /\ Release
    /\ fields' = PollFields(1, fields, r)
    /\ Return(t, "async_load", NoArg, PollPatch(1, fields, r, EmptyDict), "ok")
    /\ UNCHANGED <<device, initialized, minmaxValue, clock, sent, fetches, calls>>

(* ------------------------------ set_value ----------------------------- *)

\* The try block of set_value once the lock is held, for the field `name`
\* and the value `value`: the branch for `name` hands its first device call
\* to the executor, or an exception (self.device is None, a failed int(), a
\* missing field) is caught and logged, or no branch matches; in the last two
\* cases the lock is released at once.
Dispatch(t, name, value, flds) ==
    LET c == FirstCommand(name, value, flds)
    IN IF c.kind = "none"
       THEN /\ Return(t, "set_value", [name |-> name, value |-> value], None, "no_branch")
            /\ sent' = <<>>
            /\ Release
       ELSE IF device /\ c.kind = "call"
            THEN /\ Suspend(t, IF name = "temp" THEN "set_mode" ELSE "set_cmd")
                 /\ sent' = <<c>>
                 /\ lockOwner' = t /\ waiters' = waiters
                 /\ arg' = [arg EXCEPT ![t] = [name |-> name, value |-> value]]
                 /\ UNCHANGED <<now, values>>
            ELSE /\ Return(t, "set_value", [name |-> name, value |-> value], None, "raised")
                 /\ sent' = <<>>
                 /\ Release

SetCall(t, w) ==
    /\ Begin(t)
    /\ IF ~HasField(fields, w[1])
       THEN \* get_field(field_id) fails before anything is done
            /\ Raise(t, "set_value", [name |-> w[1], value |-> S(w[2])], "unknown_field")
            /\ UNCHANGED <<fields, sent, lockOwner, waiters>>
       ELSE /\ fields' = BaseSetValue(fields, w[1], S(w[2]))
            /\ IF LockFree
               THEN Dispatch(t, w[1], S(w[2]), fields')
               ELSE /\ Suspend(t, "set_lock")
                    /\ Enqueue(t)
                    /\ arg' = [arg EXCEPT ![t] = [name |-> w[1], value |-> S(w[2])]]
                    /\ UNCHANGED <<sent, now, values>>
    /\ UNCHANGED <<device, cached_values, initialized, last_poll, minmaxValue,
                   clock, fetches>>

SetLocked(t) ==
    /\ pc[t] = "set_lock" /\ lockOwner = t
    /\ Dispatch(t, arg[t].name, arg[t].value, fields)
    /\ UNCHANGED <<device, cached_values, initialized, last_poll, minmaxValue,
                   fields, clock, fetches, calls>>

\* temp: set_power_mode returned, set_color_temp is called next.
SetModeOk(t) ==
    /\ pc[t] = "set_mode"
    /\ LET c == SecondCommand(arg[t].name, arg[t].value)
       IN IF device /\ c.kind = "call"
          THEN /\ Suspend(t, "set_cmd")
               /\ sent' = Append(sent, c)
               /\ UNCHANGED <<lockOwner, waiters, arg, now, values>>
          ELSE /\ Return(t, "set_value", arg[t], None, "raised")
               /\ sent' = sent
               /\ Release
    /\ UNCHANGED <<device, cached_values, initialized, last_poll, minmaxValue,
                   fields, clock, fetches, calls>>

\* The last device call of the branch returned: the optimistic cache update.
SetCmdOk(t) ==
    /\ pc[t] = "set_cmd"
    /\ cached_values' = Put(cached_values, CacheKey(arg[t].name),
                            CacheValue(arg[t].name, arg[t].value))
    /\ Return(t, "set_value", arg[t], None, "ok")
    /\ Release
    /\ UNCHANGED <<device, initialized, last_poll, minmaxValue, fields, clock,
                   sent, fetches, calls>>

SetCmdFailCaches(t) ==
    /\ pc[t] \in {"set_mode", "set_cmd"}
    /\ cached_values' = Put(cached_values, CacheKey(arg[t].name),
                            CacheValue(arg[t].name, arg[t].value))
    /\ Return(t, "set_value", arg[t], None, "cmd_failed")
    /\ Release
    /\ UNCHANGED <<device, initialized, last_poll, minmaxValue, fields, clock,
                   sent, fetches, calls>>

\* A device call of the branch raised: logged, the cache is left alone.
SetCmdFail(t) ==
    /\ pc[t] \in {"set_mode", "set_cmd"}
    /\ Return(t, "set_value", arg[t], None, "cmd_failed")
    /\ Release
    /\ UNCHANGED <<device, cached_values, initialized, last_poll, minmaxValue,
                   fields, clock, sent, fetches, calls>>

(* -------------------------------- close ------------------------------- *)

\* close() is synchronous: it runs between two steps of the tasks, whoever
\* calls it, and returns None.
Close ==
    /\ device' = FALSE
    /\ ret' = [op |-> "close", arg |-> NoArg, kind |-> "return", val |-> None,
               how |-> "closed"]
    /\ UNCHANGED <<cached_values, initialized, last_poll, minmaxValue, fields,
                   lockOwner, waiters, clock, pc, arg, now, values, sent,
                   fetches, calls>>

(* --------------------------- specifications --------------------------- *)

NoFetches == [init_props |-> 0, specs |-> 0, load_props |-> 0]

\* The adapter state a call is compared against.
Snapshot == [cached_values |-> cached_values, fields |-> fields,
             last_poll |-> last_poll, initialized |-> initialized,
             minmaxValue |-> minmaxValue, device |-> device,
             fetches |-> fetches]

\* __init__: without an address no Bulb is created; the registry may already
\* hold fields.
Init ==
    /\ device \in BOOLEAN
    /\ cached_values = EmptyDict
    /\ initialized = FALSE
    /\ last_poll = InitialLastPoll
    /\ minmaxValue = NoSpecs
    /\ fields \in Registries
    /\ lockOwner = NoTask
    /\ waiters = <<>>
    /\ clock = 0
    /\ pc = [t \in Tasks |-> "idle"]
    /\ arg = [t \in Tasks |-> NoArg]
    /\ now = [t \in Tasks |-> 0]
    /\ values = [t \in Tasks |-> EmptyDict]
    /\ ret = [op |-> "", arg |-> NoArg, kind |-> "none", val |-> None, how |-> ""]
    /\ sent = <<>>
    /\ fetches = NoFetches
    /\ calls = 0
    /\ pre = Snapshot
    /\ pollLog = <<>>

\* Spec keeps no history.
NoHistory == UNCHANGED <<pre, pollLog>>

Next ==
    \/ \E t \in Tasks :
        \/ calls < MaxCalls /\ InitCall(t) /\ NoHistory
        \/ calls < MaxCalls /\ (\E at \in Clock : LoadCall(t, at)) /\ NoHistory
        \/ calls < MaxCalls /\ (\E w \in Writes : SetCall(t, w)) /\ NoHistory
        \/ InitLocked(t) /\ NoHistory
        \/ InitPropsFail(t) /\ NoHistory
        \/ (\E r \in Responses : InitPropsOk(t, r)) /\ NoHistory
        \/ (\E specs \in ModelSpecs : InitSpecsOk(t, specs)) /\ NoHistory
        \/ InitSpecsFail(t) /\ NoHistory
        \/ LoadLocked(t) /\ NoHistory
        \/ LoadPropsFail(t) /\ NoHistory
        \/ (\E r \in Responses : LoadPropsOk(t, r)) /\ NoHistory
        \/ SetLocked(t) /\ NoHistory
        \/ SetModeOk(t) /\ NoHistory
        \/ SetCmdOk(t) /\ NoHistory
        \/ SetCmdFail(t) /\ NoHistory
    \/ Close /\ NoHistory

\* Any interleaving of the tasks' calls.
Spec == Init /\ [][Next]_vars

\* The task whose calls SpecSeq follows.
Caller == CHOOSE t \in Tasks : \A u \in Tasks : t <= u

\* The history SpecSeq keeps: the adapter state when the running (or last)
\* call began, and for each poll that has returned the clock reading it took
\* and the path it followed.
History ==
    /\ pre' = IF calls' > calls THEN Snapshot ELSE pre
    /\ pollLog' = IF /\ pc'[Caller] = "idle" /\ ret'.op = "async_load"
                     /\ (calls' > calls \/ pc[Caller] # "idle")
                  THEN Append(pollLog, [at |-> clock', how |-> ret'.how])
                  ELSE pollLog

NextSeq ==
    \/ calls < MaxSeqCalls /\ InitCall(Caller) /\ History
    \/ calls < MaxSeqCalls /\ (\E at \in Clock : LoadCall(Caller, at)) /\ History
    \/ calls < MaxSeqCalls /\ (\E w \in Writes : SetCall(Caller, w)) /\ History
    \/ pc[Caller] = "idle" /\ Close /\ History
    \/ InitPropsFail(Caller) /\ History
    \/ (\E r \in Responses : InitPropsOk(Caller, r)) /\ History
    \/ (\E specs \in ModelSpecs : InitSpecsOk(Caller, specs)) /\ History
    \/ InitSpecsFail(Caller) /\ History
    \/ LoadPropsFail(Caller) /\ History
    \/ (\E r \in Responses : LoadPropsOk(Caller, r)) /\ History
    \/ SetModeOk(Caller) /\ History
    \/ SetCmdOk(Caller) /\ History
    \/ SetCmdFail(Caller) /\ History

\* Calls one after the other, all made by one task: a call starts when the
\* last one has returned.
SpecSeq == Init /\ [][NextSeq]_vars

\* The inputs of the calls SpecFair follows: whether a call returns does not
\* depend on more than a fetch with data or without, a write that is sent, one
\* whose value does not convert and one of an unknown field, and a poll that
\* is rate-limited or not.
FairResponses == {PropsOn, EmptyDict}

FairWrites == {<<"temp", "3000">>, <<"saturation", "x">>, <<"nosuch", "1">>}

FairClock == {clock, PollInterval}

\* What task t does once its call has started: it takes the lock handed to
\* it, or goes on after its device call has returned or failed.
Resume(t) ==
    \/ InitLocked(t) /\ NoHistory
    \/ InitPropsFail(t) /\ NoHistory
    \/ (\E r \in FairResponses : InitPropsOk(t, r)) /\ NoHistory
    \/ InitSpecsOk(t, PlainSpecs) /\ NoHistory
    \/ InitSpecsFail(t) /\ NoHistory
    \/ LoadLocked(t) /\ NoHistory
    \/ LoadPropsFail(t) /\ NoHistory
    \/ (\E r \in FairResponses : LoadPropsOk(t, r)) /\ NoHistory
    \/ SetLocked(t) /\ NoHistory
    \/ SetModeOk(t) /\ NoHistory
    \/ SetCmdOk(t) /\ NoHistory
    \/ SetCmdFail(t) /\ NoHistory

NextFair ==
    \/ \E t \in Tasks :
        \/ calls < MaxCalls /\ InitCall(t) /\ NoHistory
        \/ calls < MaxCalls /\ (\E at \in FairClock : LoadCall(t, at)) /\ NoHistory
        \/ calls < MaxCalls /\ (\E w \in FairWrites : SetCall(t, w)) /\ NoHistory
        \/ Resume(t)
    \/ Close /\ NoHistory

\* Any interleaving of the tasks' calls, with every device call returning or
\* failing in the end and the event loop running every task that can run.
SpecFair == Init /\ [][NextFair]_vars /\ \A t \in Tasks : WF_vars(Resume(t))

\* What get_properties returns when the device has data.
Answers == Responses \ {EmptyDict}

\* The history SpecOk keeps: for each get_properties that async_load hands
\* to the executor, the time at which it is issued.
FetchLog ==
    /\ pre' = pre
    /\ pollLog' = IF fetches'.load_props > fetches.load_props
                  THEN Append(pollLog, [at |-> clock', how |-> "fetch"])
                  ELSE pollLog

NextOk ==
    \E t \in Tasks :
        \/ calls < MaxCalls /\ InitCall(t) /\ FetchLog
        \/ calls < MaxCalls /\ (\E at \in Clock : LoadCall(t, at)) /\ FetchLog
        \/ calls < MaxCalls /\ (\E w \in Writes : SetCall(t, w)) /\ FetchLog
        \/ InitLocked(t) /\ FetchLog
        \/ (\E r \in Answers : InitPropsOk(t, r)) /\ FetchLog
        \/ (\E specs \in ModelSpecs : InitSpecsOk(t, specs)) /\ FetchLog
        \/ LoadLocked(t) /\ FetchLog
        \/ (\E r \in Answers : LoadPropsOk(t, r)) /\ FetchLog
        \/ SetLocked(t) /\ FetchLog
        \/ SetModeOk(t) /\ FetchLog
        \/ SetCmdOk(t) /\ FetchLog

\* Any interleaving of the tasks' calls in which every device call returns,
\* get_properties with data, and close() is not called.
SpecOk == Init /\ [][NextOk]_vars

(* ------------------------------ claims -------------------------------- *)

\* The tasks with a device call in flight.
\* The positions at which a task has a device call running in the executor.
InFlightPcs == {"init_props", "init_specs", "load_props", "set_mode", "set_cmd"}

InFlight == {t \in Tasks : pc[t] \in InFlightPcs}

\* C1: under any interleaving of initialize, poll and setValue calls, at most
\* one device call (property fetch, capability fetch or device command) is in
\* flight, and the task it belongs to holds the lock.
C1_OneDeviceCallInFlight ==
    /\ Cardinality(InFlight) <= 1
    /\ \A t \in InFlight : lockOwner = t

\* A poll's fetch is in flight while a write waits for the lock.
C1_Witness ==
    \E t, u \in Tasks : pc[t] = "load_props" /\ pc[u] = "set_lock"

\* The last call of SpecSeq has returned.
Returned(op) == pc[Caller] = "idle" /\ ret.op = op

\* C2: a poll whose property fetch fails returns an empty patch without
\* raising, and leaves the cached property set, every field descriptor and
\* the last-poll time as they were before the call.
C2_PollFailureIsolation ==
    (Returned("async_load") /\ ret.how = "failed") =>
        /\ ret.kind = "return"
        /\ ret.val = EmptyDict
        /\ cached_values = pre.cached_values
        /\ fields = pre.fields
        /\ last_poll = pre.last_poll

\* A poll has failed on an initialized adapter with a filled cache.
C2_Witness ==
    /\ Returned("async_load") /\ ret.how = "failed"
    /\ cached_values # EmptyDict
    /\ HasField(fields, "state")

\* The polls among the first two that fetched from the device.
FetchedPolls == {i \in 1..2 : pollLog[i].how = "ok"}

\* C3: of two polls one after the other, on an instance with a handle and a
\* device that answers, whatever the clock reads at the first: the second is
\* skipped when it comes less than the poll interval after the first (one
\* fetch in all), and both fetch when it comes the interval or more after.
C3_RateLimitTwoPolls ==
    (/\ Len(pollLog) >= 2
     /\ \A i \in 1..2 : pollLog[i].how \in {"ok", "rate_limited"}) =>
        IF pollLog[2].at - pollLog[1].at < PollInterval
        THEN FetchedPolls = {1}
        ELSE FetchedPolls = {1, 2}

\* Every registered field whose device key is in v holds the decoded value.
Agrees(flds, v) ==
    \A i \in DOMAIN PollTable :
        (PollTable[i][1] \in DOMAIN v /\ HasField(flds, PollTable[i][2])) =>
            flds[PollTable[i][2]].value = Decode(PollTable[i][3], v[PollTable[i][1]])

\* v and w hold the same keys and differ at most in the value of key k.
SameBut(v, w, k) ==
    DOMAIN v = DOMAIN w /\ \A x \in DOMAIN v : x # k => v[x] = w[x]

\* C4 as stated: a successful poll whose fetched set equals the set cached
\* before it returns an empty patch and changes no descriptor, in every
\* reachable state; and when only power differs (cached "off", fetched "on")
\* the patch is exactly {state: "1"} and the state descriptor becomes "1".
C4_UnchangedFetchEmptyPatch ==
    (Returned("async_load") /\ ret.how = "ok") =>
        /\ cached_values = pre.cached_values =>
              ret.val = EmptyDict /\ fields = pre.fields
        /\ (/\ HasField(pre.fields, "state")
            /\ "power" \in DOMAIN cached_values
            /\ SameBut(pre.cached_values, cached_values, "power")
            /\ pre.cached_values["power"] = S("off")
            /\ cached_values["power"] = S("on")) =>
              ret.val = ("state" :> S("1")) /\ fields["state"].value = S("1")

\* C4, amended: the patch of a successful poll is empty exactly when every
\* registered field whose key was fetched already held the decoded value
\* (the descriptors are compared, not the set cached before), and then no
\* descriptor changes; when power is fetched "on" and the state descriptor
\* did not hold "1", the patch maps state to "1" and the descriptor holds "1".
C4_PatchAgainstDescriptors ==
    (Returned("async_load") /\ ret.how = "ok") =>
        /\ ret.val = EmptyDict <=> Agrees(pre.fields, cached_values)
        /\ ret.val = EmptyDict => fields = pre.fields
        /\ (/\ HasField(pre.fields, "state")
            /\ "power" \in DOMAIN cached_values
            /\ cached_values["power"] = S("on")
            /\ pre.fields["state"].value # S("1")) =>
              /\ "state" \in DOMAIN ret.val
              /\ ret.val["state"] = S("1")
              /\ fields["state"].value = S("1")

\* A poll fetched what was cached and, the descriptors agreeing with it,
\* returned an empty patch.
C4_Witness ==
    /\ Returned("async_load") /\ ret.how = "ok"
    /\ HasField(fields, "state") /\ "power" \in DOMAIN cached_values
    /\ cached_values = pre.cached_values
    /\ ret.val = EmptyDict

\* The four fields written with set_hsv / bg_set_hsv: the field, the field
\* read for the other half of the command, and their keys in the cache.
HsvPairs == {
    [name |-> "color", other |-> "saturation", key |-> "hue", otherKey |-> "sat"],
    [name |-> "saturation", other |-> "color", key |-> "sat", otherKey |-> "hue"],
    [name |-> "bg_color", other |-> "bg_saturation", key |-> "bg_hue", otherKey |-> "bg_sat"],
    [name |-> "bg_saturation", other |-> "bg_color", key |-> "bg_sat", otherKey |-> "bg_hue"] }

\* The one command of a write of `name`: its own value and the other half.
HsvCommand(name, mine, theirs) ==
    CASE name = "color" -> Call("set_hsv", <<mine, theirs>>)
      [] name = "saturation" -> Call("set_hsv", <<theirs, mine>>)
      [] name = "bg_color" -> Call("send_command", <<S("bg_set_hsv"), mine, theirs>>)
      [] name = "bg_saturation" -> Call("send_command", <<S("bg_set_hsv"), theirs, mine>>)

\* C5 as stated: a write of color (saturation, bg_color, bg_saturation) that
\* went through issued exactly one command, carrying the written value and
\* the other half as held in the cached property set, and afterwards the
\* cache holds the written value under its key and is otherwise unchanged.
C5_ComposesFromCache ==
    \A p \in HsvPairs :
        (/\ Returned("set_value") /\ ret.how = "ok" /\ ret.arg.name = p.name
         /\ p.otherKey \in DOMAIN pre.cached_values
         /\ CanInt(pre.cached_values[p.otherKey])) =>
            /\ sent = <<HsvCommand(p.name, I(ToInt(ret.arg.value)),
                                   I(ToInt(pre.cached_values[p.otherKey])))>>
            /\ cached_values = Put(pre.cached_values, p.key, I(ToInt(ret.arg.value)))

\* C5, amended: with a handle, a convertible value and the other field
\* registered with a convertible value, the write issues exactly one command
\* carrying int(value) and the int of the other field's descriptor (not of
\* the cached set); if the command succeeds the cache holds int(value) under
\* the field's key and is otherwise unchanged, if it fails the cache is
\* unchanged; in every other case no command is issued and the cache is
\* unchanged.
C5_ComposesFromDescriptor ==
    \A p \in HsvPairs :
        (Returned("set_value") /\ ret.kind = "return" /\ ret.arg.name = p.name) =>
            IF /\ pre.device /\ CanInt(ret.arg.value)
               /\ HasField(pre.fields, p.other)
               /\ CanInt(pre.fields[p.other].value)
            THEN /\ sent = <<HsvCommand(p.name, I(ToInt(ret.arg.value)),
                                        I(ToInt(pre.fields[p.other].value)))>>
                 /\ ret.how \in {"ok", "cmd_failed"}
                 /\ ret.how = "ok" =>
                       cached_values = Put(pre.cached_values, p.key,
                                           I(ToInt(ret.arg.value)))
                 /\ ret.how = "cmd_failed" => cached_values = pre.cached_values
            ELSE sent = <<>> /\ cached_values = pre.cached_values

\* color was written after a failed write of saturation: the command carried
\* the saturation of the descriptor, which the cache does not hold.
C5_Witness ==
    /\ Returned("set_value") /\ ret.how = "ok" /\ ret.arg.name = "color"
    /\ "sat" \in DOMAIN cached_values
    /\ cached_values["sat"] = S("50")
    /\ sent = <<Call("set_hsv", <<I(200), I(60)>>)>>

\* C6: an initialize() called on an initialized instance issues no property
\* fetch and no capability fetch, registers no field and changes nothing of
\* the adapter; two initialize calls in a row have then fetched the
\* properties once and the capabilities once in all.
C6_InitIdempotent ==
    (Returned("async_init") /\ pre.initialized) =>
        /\ ret.how = "skipped"
        /\ Snapshot = pre
        /\ LockFree
        /\ calls = 2 => fetches.init_props = 1 /\ fetches.specs = 1

\* The second of two initialize calls returned, the first having succeeded.
C6_Witness ==
    /\ Returned("async_init") /\ pre.initialized /\ pre.device
    /\ calls = 2
    /\ pre.fetches.init_props = 1

\* C7: when the property fetch of initialize() returns an empty set or
\* raises, initialize() returns without raising, the instance is not
\* initialized and not connected, no capability fetch was issued, no field
\* was registered and the cached set is as before; and an initialize() called
\* on an uninitialized instance that has its handle fetches the properties.
C7_EmptyOrFailedFetchRejected ==
    /\ (Returned("async_init") /\ ret.how \in {"props_empty", "props_failed"}) =>
          /\ ret.kind = "return"
          /\ ~initialized /\ ~is_conected
          /\ fetches.specs = pre.fetches.specs
          /\ fields = pre.fields
          /\ cached_values = pre.cached_values
          /\ LockFree
    /\ (Returned("async_init") /\ ~pre.initialized /\ pre.device) =>
          fetches.init_props = pre.fetches.init_props + 1

\* An initialize() that followed a rejected one fetched again, and was
\* rejected as well.
C7_Witness ==
    /\ Returned("async_init") /\ ret.how \in {"props_empty", "props_failed"}
    /\ pre.fetches.init_props = 1 /\ fetches.init_props = 2

\* C8: when the capability fetch of initialize() fails, initialize() goes
\* on: the capability spec is the default one, the temp field is registered
\* with low "1700" and high "6500" when ct was reported and temp was not
\* registered (a registered temp is left alone), night_light is registered
\* if it was absent, and the instance is initialized.
C8_DefaultCapabilityFallback ==
    (Returned("async_init") /\ ret.how = "specs_failed") =>
        /\ ret.kind = "return"
        /\ minmaxValue = DefaultSpecs
        /\ initialized
        /\ HasField(fields, "night_light")
        /\ HasField(pre.fields, "night_light") =>
              fields["night_light"] = pre.fields["night_light"]
        /\ IF HasField(pre.fields, "temp")
           THEN fields["temp"] = pre.fields["temp"]
           ELSE IF Get(cached_values, "ct", None) # None
                THEN /\ HasField(fields, "temp")
                     /\ fields["temp"] = Descriptor(cached_values["ct"], "6500",
                                                    "1700", "NUMBER")
                ELSE ~HasField(fields, "temp")

\* The capability fetch failed and temp was registered with the defaults.
C8_Witness ==
    /\ Returned("async_init") /\ ret.how = "specs_failed"
    /\ ~HasField(pre.fields, "temp") /\ HasField(fields, "temp")
    /\ ~HasField(pre.fields, "night_light")

\* A call returned or raised in this step: a task came back to idle, or a
\* call began and ended at once.
Ended ==
    \/ \E t \in Tasks : pc[t] # "idle" /\ pc'[t] = "idle"
    \/ calls' > calls /\ pc' = pc

\* The adapter state: everything but the bookkeeping of the calls.
adapter == <<device, cached_values, initialized, last_poll, minmaxValue, fields,
             lockOwner, waiters, sent, fetches>>

\* C9 as stated: once close() has been called on an instance that had a
\* handle (Spec keeps in pre the state after construction), the handle stays
\* None, is_conected is false, no task starts a device call (a task waiting
\* for the lock when close() ran included), none of the calls raises to its
\* caller, and close() again changes nothing.
C9_ClosedNeverRaises ==
    [][(pre.device /\ ~device) =>
        /\ ~device'
        /\ ~is_conected'
        /\ fetches' = fetches
        /\ sent' \in {sent, <<>>}
        /\ \A t \in Tasks : pc'[t] \in InFlightPcs => pc'[t] = pc[t]
        /\ Ended => ret'.kind = "return"
        /\ Close => UNCHANGED <<adapter, pc>>]_vars

\* C9, amended: once the handle is None it stays None, is_conected is false,
\* no task starts a device call (a task waiting for the lock when close()
\* ran included) and close() again changes nothing; a call raises to its
\* caller exactly when it is a setValue naming a field id the registry does
\* not hold (get_field fails, as it does with a handle), and then it has
\* changed nothing of the adapter.
C9_ClosedForGood ==
    [][~device =>
        /\ ~device'
        /\ ~is_conected'
        /\ fetches' = fetches
        /\ sent' \in {sent, <<>>}
        /\ \A t \in Tasks : pc'[t] \in InFlightPcs => pc'[t] = pc[t]
        /\ Ended =>
              /\ ret'.kind = "raise" <=>
                    (ret'.op = "set_value" /\ ~HasField(fields', ret'.arg.name))
              /\ ret'.kind = "raise" => UNCHANGED adapter
        /\ Close => UNCHANGED <<adapter, pc>>]_vars

\* A poll that waited for the lock while close() ran found no handle.
C9_Witness ==
    /\ ~device
    /\ ret.op = "async_load" /\ ret.how = "no_device"
    /\ fetches.load_props = 0

\* C10: when the command of set_value(f, v) fails, or v cannot be
\* converted, or f's name has no command, set_value returns without raising,
\* the descriptor of f holds v and the cached set is as before the call.
C10_FailedWriteKeepsCache ==
    (Returned("set_value") /\ ret.how \in {"cmd_failed", "raised", "no_branch"}) =>
        /\ ret.kind = "return"
        /\ fields = BaseSetValue(pre.fields, ret.arg.name, ret.arg.value)
        /\ fields[ret.arg.name].value = ret.arg.value
        /\ cached_values = pre.cached_values

\* The command of a write of color failed: the descriptor holds the written
\* value, the cache the fetched one.
C10_Witness ==
    /\ Returned("set_value") /\ ret.how = "cmd_failed"
    /\ ret.arg.name = "color"
    /\ fields["color"].value = S("200")
    /\ "hue" \in DOMAIN cached_values /\ cached_values["hue"] = S("100")

\* C11: on an instance constructed without an address (Spec keeps in pre the
\* state after construction) the handle is None in every state and no step
\* of initialize, poll, setValue or close issues a device call or changes
\* the cached set, the initialized flag or a field descriptor.
C11_NoAddressNoOp ==
    [][~pre.device =>
        /\ ~device'
        /\ fetches' = fetches
        /\ sent' = <<>>
        /\ cached_values' = cached_values
        /\ initialized' = initialized
        /\ fields' = fields]_vars

\* C12: any two property fetches issued by poll, in any interleaving of the
\* calls, are at least the poll interval apart.
C12_FetchesIntervalApart ==
    \A i, j \in DOMAIN pollLog :
        i < j => pollLog[j].at - pollLog[i].at >= PollInterval

\* C13: the cached property set is only ever replaced by a non-empty fetch
\* result: no step that changes it leaves it empty.
C13_EmptyFetchNotCached ==
    [][cached_values' # cached_values => cached_values' # EmptyDict]_vars

\* A step in which a poll issues its property fetch or a write issues a
\* device command.
IssuesPollOrWrite ==
    \/ fetches'.load_props > fetches.load_props
    \/ sent' # sent /\ sent' # <<>>

\* C14: a property fetch of poll or a device command of setValue is issued
\* only in a state where the initialized flag is true.
C14_NoTrafficBeforeInit == [][IssuesPollOrWrite => initialized]_vars

\* C15: in any interleaving of initialize() calls whose device calls all
\* succeed with data, initialization issues one property fetch and one
\* capability fetch at most.
C15_InitFetchesOnce == fetches.init_props <= 1 /\ fetches.specs <= 1

\* A step in which an initialize() call goes on after a device call.
InitStep == \E t \in Tasks : pc[t] \in {"init_props", "init_specs"} /\ pc'[t] # pc[t]

\* C16: in any interleaving of initialize() calls with the other calls, on a
\* registry that may hold fields already, initialize only adds descriptors
\* for names the registry does not hold: every descriptor that exists stays
\* as it is, so that no name gets a second descriptor.
C16_InitOnlyAddsFields ==
    [][InitStep =>
        \A n \in DOMAIN fields : n \in DOMAIN fields' /\ fields'[n] = fields[n]]_vars

\* Two initialize() calls ran on a registry that held temp: the fields of
\* the device were added and temp kept its bounds.
C16_Witness ==
    /\ initialized /\ fetches.init_props = 2
    /\ HasField(fields, "saturation")
    /\ HasField(fields, "temp") /\ fields["temp"].high = "5000"

\* The device key each field is read from by poll.
FieldKey ==
    ("state" :> "power") @@ ("brightness" :> "current_brightness")
    @@ ("bg_bright" :> "bg_bright") @@ ("night_light" :> "active_mode")
    @@ ("temp" :> "ct") @@ ("bg_temp" :> "bg_ct") @@ ("color" :> "hue")
    @@ ("bg_color" :> "bg_hue") @@ ("bg_power" :> "bg_power")
    @@ ("saturation" :> "sat") @@ ("bg_saturation" :> "bg_sat")

\* power and bg_power decode "on" to "1" and anything else to "0"; the other
\* keys pass through.
Decoded(key, raw) ==
    IF key \in {"power", "bg_power"}
    THEN (IF raw = S("on") THEN S("1") ELSE S("0"))
    ELSE raw

\* The value fetched for the field n, decoded.
Fetched(n, v) == Decoded(FieldKey[n], v[FieldKey[n]])

\* The registered fields whose key is in v and whose descriptor differs from
\* the decoded value.
Differing(flds, v) ==
    {n \in DOMAIN FieldKey \cap DOMAIN flds :
        FieldKey[n] \in DOMAIN v /\ flds[n].value # Fetched(n, v)}

\* C17: the patch of a successful poll maps exactly the registered fields
\* whose key was fetched and whose descriptor differed from the decoded
\* value to that value; these descriptors hold it afterwards and every other
\* descriptor is as before.
C17_PatchExact ==
    (Returned("async_load") /\ ret.how = "ok") =>
        LET ch == Differing(pre.fields, cached_values)
        IN /\ ret.val = [n \in ch |-> Fetched(n, cached_values)]
           /\ fields = [n \in DOMAIN pre.fields |->
                           IF n \in ch
                           THEN [pre.fields[n] EXCEPT !.value = Fetched(n, cached_values)]
                           ELSE pre.fields[n]]

\* A poll changed state and left temp, whose key was not fetched, alone.
C17_Witness ==
    /\ Returned("async_load") /\ ret.how = "ok"
    /\ "state" \in DOMAIN ret.val /\ ret.val["state"] = S("1")
    /\ HasField(fields, "temp") /\ "ct" \notin DOMAIN cached_values
    /\ "temp" \notin DOMAIN ret.val

\* C18: when no device call fails, at the return of a setValue(f, v) whose
\* command was sent, and with no other setValue on f waiting, the descriptor
\* of f holds v and the cached entry of f holds the encoding of v, whatever
\* polls ran meanwhile.
C18_WriteSurvivesPoll ==
    [][\A t \in Tasks :
        (/\ pc[t] = "set_cmd" /\ pc'[t] = "idle"
         /\ \A u \in Tasks : pc[u] = "set_lock" => arg[u].name # arg[t].name) =>
            /\ fields'[arg[t].name].value = arg[t].value
            /\ cached_values'[CacheKey(arg[t].name)]
                  = CacheValue(arg[t].name, arg[t].value)]_vars

\* No call is running.
AllIdle == \A t \in Tasks : pc[t] = "idle"

\* C19: when every device call returns or fails in the end and every task
\* that can run is run, every started initialize, poll and setValue returns,
\* and the lock is free whenever no call is running: no path (empty fetch,
\* transport error, conversion error, close during the call) leaves it held.
C19_CallsReturnLockFreed ==
    /\ [](AllIdle => LockFree)
    /\ \A t \in Tasks : (pc[t] # "idle") ~> (pc[t] = "idle")

\* A call that failed handed the lock to a call that waited for it.
C19_Witness ==
    /\ ret.how \in {"failed", "props_failed", "props_empty", "cmd_failed", "raised"}
    /\ \E t \in Tasks : lockOwner = t /\ pc[t] \in {"init_lock", "load_lock", "set_lock"}

====
